---- MODULE Spec2Model ----
(***************************************************************************)
(* Availability, booking holds, booking lifecycle and the event outbox of  *)
(* the Tithi backend (backend/app/services/business_phase2.py,             *)
(* backend/app/jobs/outbox_worker.py, backend/app/models/system.py,        *)
(* backend/app/blueprints/admin_dashboard_api.py), and the refunds and     *)
(* default payment methods of backend/app/services/financial.py.           *)
(*                                                                         *)
(* Datetimes are minutes since midnight of day 0; the wall clock `now` is  *)
(* counted in minutes.  Booking times and the wall clock are never         *)
(* compared with each other by the code.                                   *)
(***************************************************************************)
EXTENDS Integers, Sequences, FiniteSets, TLC

VARIABLES
    bookings,     \* rows of the bookings table
    holds,        \* rows of the booking_holds table
    holdCache,    \* entries of the fast expiring hold store
    availCache,   \* entries of the availability cache
    events,       \* rows of the events_outbox table
    customers,    \* number of rows of the customers table
    schedules,    \* rows of the work_schedules table, in query order
    now,          \* wall clock, in minutes
    nextHold,     \* source of fresh hold keys
    lastOp,       \* the last completed call: arguments and outcome
    pc,           \* position of each concurrent request
    local,        \* local variables of each concurrent request
    worker,       \* state of the outbox dispatcher run
    payments,     \* rows of the payments table
    refunds,      \* rows of the refunds table
    methods,      \* rows of the payment_methods table
    finProc       \* position and locals of each concurrent payment request

vars == <<bookings, holds, holdCache, availCache, events, customers,
          schedules, now, nextHold, lastOp, pc, local, worker,
          payments, refunds, methods, finProc>>

finVars == <<payments, refunds, methods, finProc>>

dbVars == <<bookings, holds, holdCache, availCache, events, customers,
            schedules, nextHold>>

(***************************************************************************)
(* Bounds of the model.                                                    *)
(***************************************************************************)
MaxBookings == 2
MaxHolds == 2
MaxCustomers == 1
MaxTime == 2
MaxEvents == 2

(***************************************************************************)
(* Program constants.                                                      *)
(***************************************************************************)
DEFAULT_BUSINESS_START_HOUR == 9
DEFAULT_BUSINESS_END_HOUR == 17
MAX_RETRY_ATTEMPTS == 3
BackoffSeconds == 60
MIN_BOOKING_DURATION_MINUTES == 15
MAX_BOOKING_DURATION_HOURS == 8
MinutesPerDay == 1440
MinutesPerHour == 60

(***************************************************************************)
(* Inputs.                                                                 *)
(***************************************************************************)
Tenants == {"t1", "t2"}
ResourceIds == {"r1", "r2"}
Tokens == {1}
NoToken == 0
TtlMinutes == {1, 2}
Intervals == {<<540, 600>>, <<570, 630>>, <<600, 660>>, <<600, 600>>}

\* The resources table: each resource belongs to one tenant.
Resources == {[tenant |-> "t1", id |-> "r1"], [tenant |-> "t2", id |-> "r2"]}

\* The staff_profiles table: one active profile per resource.
StaffProfiles ==
    {[id |-> "s1", tenant |-> "t1", resource |-> "r1", is_active |-> TRUE],
     [id |-> "s2", tenant |-> "t2", resource |-> "r2", is_active |-> TRUE]}

NoDate == -1

InitSchedules ==
    << [tenant |-> "t1", staff |-> "s1", schedule_type |-> "regular",
        start_date |-> 0, end_date |-> NoDate,
        start_hour |-> 9, end_hour |-> 17,
        is_time_off |-> FALSE, overrides_regular |-> FALSE],
       [tenant |-> "t2", staff |-> "s2", schedule_type |-> "regular",
        start_date |-> 0, end_date |-> NoDate,
        start_hour |-> 9, end_hour |-> 17,
        is_time_off |-> FALSE, overrides_regular |-> FALSE] >>

(***************************************************************************)
(* datetime helpers                                                        *)
(***************************************************************************)
DateOf(dt) == dt \div MinutesPerDay
HourOf(dt) == (dt % MinutesPerDay) \div MinutesPerHour
Combine(date, hour) == date * MinutesPerDay + hour * MinutesPerHour

\* Half-open interval intersection as written in every query of the code.
Overlaps(s1, e1, s2, e2) == s1 < e2 /\ e1 > s2

\* The statuses of the first overlap query of create_booking alone.
BlockingStatuses_NoPending == {"confirmed", "checked_in"}

BlockingStatuses == {"pending", "confirmed", "checked_in"}
StrictStatuses == {"confirmed", "checked_in"}
AllStatuses == {"pending", "confirmed", "checked_in", "completed",
                "canceled", "no_show", "failed"}


(***************************************************************************)
(* Records                                                                 *)
(***************************************************************************)
NoId == 0
NoSlots == << >>

\* The arguments of a call; an operation fills the ones it takes.
Req(t, r, s, e, k) ==
    [tenant |-> t, resource |-> r, start_at |-> s, end_at |-> e, key |-> k,
     require_payment |-> FALSE]

NoReq == Req("none", "none", 0, 0, 0)

\* The last completed call: its arguments and what it returned or raised.
Op(op, req, result, id, slots) ==
    [op |-> op, req |-> req, result |-> result, id |-> id, slots |-> slots]

NoOp == Op("none", NoReq, "none", NoId, NoSlots)

\* client_generated_id or str(uuid.uuid4()): a caller's token, or a fresh
\* value that no caller can present.
StoredToken(k, id) == IF k # NoToken THEN <<"client", k>> ELSE <<"uuid", id>>

NewBooking(id, t, r, s, e, k) ==
    [id |-> id, tenant |-> t, resource |-> r, start_at |-> s, end_at |-> e,
     status |-> "pending", client_generated_id |-> StoredToken(k, id),
     no_show_flag |-> FALSE]

NewEvent(id, t, code, booking) ==
    [id |-> id, tenant |-> t, event_code |-> code, booking |-> booking,
     status |-> "pending", attempts |-> 0,
     max_attempts |-> MAX_RETRY_ATTEMPTS, ready_at |-> now,
     force_fail |-> FALSE, handled |-> 0]

FreshBookingId(bs) == Cardinality(bs) + 1
FreshEventId(es) == Cardinality(es) + 1

(***************************************************************************)
(* AvailabilityService._is_staff_available.  The loop returns at the first *)
(* schedule that decides: a time-off schedule covering the date answers    *)
(* False, a working schedule whose hours contain the request answers True; *)
(* when no schedule decides the answer is False.                           *)
(***************************************************************************)
CoversDate(s, d) ==
    s.start_date <= d /\ (s.end_date = NoDate \/ s.end_date >= d)

StaffSchedules(sp, d) ==
    SelectSeq(schedules,
              LAMBDA s : s.tenant = sp.tenant /\ s.staff = sp.id
                         /\ CoversDate(s, d))

RECURSIVE ScanSchedules(_, _, _)
ScanSchedules(ss, start_at, end_at) ==
    IF ss = << >> THEN FALSE
    ELSE LET s == Head(ss) IN
         IF s.is_time_off
         THEN IF CoversDate(s, DateOf(start_at)) THEN FALSE
              ELSE ScanSchedules(Tail(ss), start_at, end_at)
         ELSE IF HourOf(start_at) >= s.start_hour
                 /\ HourOf(end_at) <= s.end_hour
              THEN TRUE
              ELSE ScanSchedules(Tail(ss), start_at, end_at)

IsStaffAvailable(sp, start_at, end_at) ==
    ScanSchedules(StaffSchedules(sp, DateOf(start_at)), start_at, end_at)

(***************************************************************************)
(* AvailabilityService.is_time_available, query by query.                  *)
(***************************************************************************)
ExistingBooking(bs, t, r, s, e, statuses) ==
    \E b \in bs : /\ b.tenant = t
                  /\ b.resource = r
                  /\ b.status \in statuses
                  /\ b.start_at < e /\ b.end_at > s

\* A reader that trusts the presence of the hold row alone.
HoldIsActive_PresenceOnly(h, clock) == TRUE

HoldIsActive(h, clock) == h.hold_until > clock

ActiveHold(hs, t, r, s, e) ==
    \E h \in hs : /\ h.tenant = t
                  /\ h.resource = r
                  /\ HoldIsActive(h, now)
                  /\ h.start_at < e /\ h.end_at > s

StaffCheck(t, r, s, e) ==
    \E sp \in StaffProfiles :
        /\ sp.tenant = t /\ sp.resource = r /\ sp.is_active
        /\ IsStaffAvailable(sp, s, e)

\* An availability check that forgets the hold query.
is_time_available_NoHoldQuery(t, r, s, e) ==
    /\ ~ExistingBooking(bookings, t, r, s, e, BlockingStatuses)
    /\ StaffCheck(t, r, s, e)

is_time_available(t, r, s, e) ==
    /\ ~ExistingBooking(bookings, t, r, s, e, BlockingStatuses)
    /\ ~ActiveHold(holds, t, r, s, e)
    /\ StaffCheck(t, r, s, e)

\* BaseService._validate_datetime_range
ValidRange(s, e) == s < e


procVars == <<pc, local, worker>>

(***************************************************************************)
(* AvailabilityService._get_default_day_slots, _generate_day_slots,        *)
(* _generate_availability_slots, _get_default_availability.                *)
(***************************************************************************)
Slot(date, hour, available, schedule_type) ==
    [start_at |-> Combine(date, hour),
     end_at |-> Combine(date, hour) + MinutesPerHour,
     available |-> available, schedule_type |-> schedule_type]

DefaultDaySlots(date) ==
    [i \in 1..(DEFAULT_BUSINESS_END_HOUR - DEFAULT_BUSINESS_START_HOUR) |->
        Slot(date, DEFAULT_BUSINESS_START_HOUR + i - 1, TRUE, "default")]

SlotFree(date, hour, dayBookings) ==
    ~\E b \in dayBookings :
        /\ b.start_at < Combine(date, hour) + MinutesPerHour
        /\ b.end_at > Combine(date, hour)

ScheduleSlots(date, s, dayBookings) ==
    [i \in 1..(IF s.end_hour > s.start_hour
               THEN s.end_hour - s.start_hour ELSE 0) |->
        Slot(date, s.start_hour + i - 1,
             SlotFree(date, s.start_hour + i - 1, dayBookings),
             s.schedule_type)]

RECURSIVE SlotsOfSchedules(_, _, _)
SlotsOfSchedules(date, ss, dayBookings) ==
    IF ss = << >> THEN << >>
    ELSE (IF Head(ss).is_time_off THEN << >>
          ELSE ScheduleSlots(date, Head(ss), dayBookings))
         \o SlotsOfSchedules(date, Tail(ss), dayBookings)

GenerateDaySlots(date, ss, dayBookings) ==
    IF ss = << >> THEN DefaultDaySlots(date)
    ELSE SlotsOfSchedules(date, ss, dayBookings)

RECURSIVE GenerateAvailabilitySlots(_, _, _, _)
GenerateAvailabilitySlots(current_date, end_date_only, ss, bs) ==
    IF current_date > end_date_only THEN << >>
    ELSE GenerateDaySlots(
             current_date,
             SelectSeq(ss, LAMBDA s : CoversDate(s, current_date)),
             {b \in bs : DateOf(b.start_at) = current_date})
         \o GenerateAvailabilitySlots(current_date + 1, end_date_only, ss, bs)

RECURSIVE DefaultAvailability(_, _)
DefaultAvailability(current_date, end_date_only) ==
    IF current_date > end_date_only THEN << >>
    ELSE DefaultDaySlots(current_date)
         \o DefaultAvailability(current_date + 1, end_date_only)

\* The two queries of calculate_availability.
RangeSchedules(sp, start_date, end_date) ==
    SelectSeq(schedules,
              LAMBDA s : /\ s.tenant = sp.tenant
                         /\ s.staff = sp.id
                         /\ s.start_date <= DateOf(end_date)
                         /\ (s.end_date = NoDate
                             \/ s.end_date >= DateOf(start_date)))

RangeBookings(t, r, start_date, end_date) ==
    {b \in bookings : /\ b.tenant = t
                      /\ b.resource = r
                      /\ b.status \in BlockingStatuses
                      /\ b.start_at < end_date
                      /\ b.end_at > start_date}

\* The computation of calculate_availability below its cache lookup and its
\* resource lookup.
ComputeSlots(t, r, start_date, end_date) ==
    LET sps == {sp \in StaffProfiles : sp.tenant = t /\ sp.resource = r}
    IN  IF sps = {}
        THEN DefaultAvailability(DateOf(start_date), DateOf(end_date))
        ELSE LET sp == CHOOSE x \in sps : TRUE
             IN  GenerateAvailabilitySlots(
                     DateOf(start_date), DateOf(end_date),
                     RangeSchedules(sp, start_date, end_date),
                     RangeBookings(t, r, start_date, end_date))

(***************************************************************************)
(* The availability cache and the fast hold store (services/cache.py).     *)
(***************************************************************************)
CacheGet(cache, t, r, date) ==
    {c \in cache : c.tenant = t /\ c.resource = r /\ c.date = date}

CacheSet(cache, t, r, date, slots) ==
    (cache \ CacheGet(cache, t, r, date))
        \cup {[tenant |-> t, resource |-> r, date |-> date, slots |-> slots]}

InvalidateAvailability(cache, t, r) ==
    {c \in cache : ~(c.tenant = t /\ c.resource = r)}

HoldCacheCreate(store, t, key, expires) ==
    store \cup {[tenant |-> t, hold_key |-> key, expires |-> expires]}

HoldCacheRelease(store, t, key) ==
    {x \in store : ~(x.tenant = t /\ x.hold_key = key)}


(***************************************************************************)
(* BaseService._emit_event: the row it adds, committed on its own after    *)
(* the caller's write was committed.  The commit either goes through or    *)
(* raises, and then no row is written.                                     *)
(***************************************************************************)
EmitEvent(es, t, code, booking, emitted) ==
    IF emitted
    THEN es \cup {NewEvent(FreshEventId(es), t, code, booking)}
    ELSE es

(***************************************************************************)
(* BookingService.create_booking, run to completion.                       *)
(***************************************************************************)
\* A lookup by token alone.
IdempotentMatches_AnyTenant(bs, t, k) ==
    {b \in bs : b.client_generated_id = <<"client", k>>}

IdempotentMatches(bs, t, k) ==
    {b \in bs : b.tenant = t /\ b.client_generated_id = <<"client", k>>}

create_booking(t, r, s, e, k, inline) ==
    /\ inline => customers < MaxCustomers
    /\ customers' = IF inline THEN customers + 1 ELSE customers
    /\ UNCHANGED <<holds, holdCache, availCache, schedules, finVars, now,
                   nextHold, procVars>>
    /\ IF ~ValidRange(s, e)
       THEN /\ lastOp' = Op("create_booking", Req(t, r, s, e, k),
                            "validation_error", NoId, NoSlots)
            /\ UNCHANGED <<bookings, events>>
       ELSE IF k # NoToken /\ IdempotentMatches(bookings, t, k) # {}
       THEN /\ \E b \in IdempotentMatches(bookings, t, k) :
                 lastOp' = Op("create_booking", Req(t, r, s, e, k),
                              "existing", b.id, NoSlots)
            /\ UNCHANGED <<bookings, events>>
       ELSE IF ExistingBooking(bookings, t, r, s, e, StrictStatuses)
       THEN /\ lastOp' = Op("create_booking", Req(t, r, s, e, k),
                            "conflict", NoId, NoSlots)
            /\ UNCHANGED <<bookings, events>>
       ELSE IF ~is_time_available(t, r, s, e)
       THEN /\ lastOp' = Op("create_booking", Req(t, r, s, e, k),
                            "unavailable", NoId, NoSlots)
            /\ UNCHANGED <<bookings, events>>
       ELSE /\ Cardinality(bookings) < MaxBookings
            /\ LET id == FreshBookingId(bookings) IN
               /\ bookings' = bookings \cup {NewBooking(id, t, r, s, e, k)}
               /\ \E emitted \in BOOLEAN :
                    /\ events' = EmitEvent(events, t, "BOOKING_CREATED",
                                           id, emitted)
                    /\ lastOp' = Op("create_booking", Req(t, r, s, e, k),
                                    IF emitted THEN "created"
                                    ELSE "emit_error", id, NoSlots)

(***************************************************************************)
(* AvailabilityService.create_booking_hold, run to completion.             *)
(***************************************************************************)
\* A handler that rolls back the session only.
RollbackHold_SessionOnly(store, t, key) == store

\* The except branch: the session is rolled back, so no row is written, and
\* the fast-store entry of the key is removed.
RollbackHold(store, t, key) == HoldCacheRelease(store, t, key)

NewHold(key, t, r, s, e, ttl) ==
    [hold_key |-> key, tenant |-> t, resource |-> r, start_at |-> s,
     end_at |-> e, hold_until |-> now + ttl]

create_booking_hold(t, r, s, e, ttl) ==
    /\ UNCHANGED <<bookings, events, customers, schedules, finVars, now,
                   procVars>>
    /\ IF ~ValidRange(s, e)
       THEN /\ lastOp' = Op("create_booking_hold", Req(t, r, s, e, ttl),
                            "validation_error", 0, NoSlots)
            /\ UNCHANGED <<holds, holdCache, availCache, nextHold>>
       ELSE IF ~is_time_available(t, r, s, e)
       THEN /\ lastOp' = Op("create_booking_hold", Req(t, r, s, e, ttl),
                            "unavailable", 0, NoSlots)
            /\ UNCHANGED <<holds, holdCache, availCache, nextHold>>
       ELSE /\ nextHold <= MaxHolds
            /\ nextHold' = nextHold + 1
            /\ \E committed \in BOOLEAN :
                 IF committed
                 THEN /\ holdCache' = HoldCacheCreate(holdCache, t, nextHold,
                                                      now + ttl)
                      /\ holds' = holds
                                  \cup {NewHold(nextHold, t, r, s, e, ttl)}
                      /\ availCache' = InvalidateAvailability(availCache, t, r)
                      /\ lastOp' = Op("create_booking_hold", Req(t, r, s, e,
                                      ttl),
                                      "created", nextHold, NoSlots)
                 ELSE /\ holdCache' = RollbackHold(
                                          HoldCacheCreate(holdCache, t,
                                              nextHold, now + ttl),
                                          t, nextHold)
                      /\ UNCHANGED <<holds, availCache>>
                      /\ lastOp' = Op("create_booking_hold", Req(t, r, s, e,
                                      ttl),
                                      "db_error", nextHold, NoSlots)

(***************************************************************************)
(* AvailabilityService.release_booking_hold                                *)
(***************************************************************************)
FindHold(hs, t, key) == {h \in hs : h.tenant = t /\ h.hold_key = key}

release_booking_hold(t, key) ==
    /\ UNCHANGED <<bookings, events, customers, schedules, finVars, now,
                   nextHold, procVars>>
    /\ IF FindHold(holds, t, key) = {}
       THEN /\ lastOp' = Op("release_booking_hold", Req(t, "none", 0, 0, key),
                            "false", key, NoSlots)
            /\ UNCHANGED <<holds, holdCache, availCache>>
       ELSE \E h \in FindHold(holds, t, key), committed \in BOOLEAN :
            /\ holdCache' = HoldCacheRelease(holdCache, t, key)
            /\ IF committed
               THEN /\ holds' = holds \ {h}
                    /\ availCache' =
                           InvalidateAvailability(availCache, t, h.resource)
               ELSE UNCHANGED <<holds, availCache>>
            /\ lastOp' = Op("release_booking_hold", Req(t, "none", 0, 0, key),
                            IF committed THEN "true" ELSE "db_error", key,
                            NoSlots)


(***************************************************************************)
(* BookingService.get_booking and the status operations.  The audit row    *)
(* that cancel_booking writes after its commit is not part of the state.   *)
(***************************************************************************)
\* A lookup by id alone.
get_booking_ById(bs, t, id) == {b \in bs : b.id = id}

get_booking(bs, t, id) == {b \in bs : b.tenant = t /\ b.id = id}

Replace(bs, old, new) == (bs \ {old}) \cup {new}

Unchanged(op, t, id, result) ==
    /\ lastOp' = Op(op, Req(t, "none", 0, 0, id),
                    result, id, NoSlots)
    /\ UNCHANGED <<bookings, events>>

confirm_booking(t, id, require_payment) ==
    /\ UNCHANGED <<holds, holdCache, availCache, customers, schedules, finVars,
                   now, nextHold, procVars>>
    /\ LET q == [Req(t, "none", 0, 0, id)
                    EXCEPT !.require_payment = require_payment]
           Rejected(result) ==
               /\ lastOp' = Op("confirm_booking", q, result, id, NoSlots)
               /\ UNCHANGED <<bookings, events>>
       IN IF get_booking(bookings, t, id) = {}
          THEN Rejected("false")
          ELSE \E b \in get_booking(bookings, t, id) :
               IF b.status # "pending"
               THEN Rejected("value_error")
               ELSE IF require_payment
               THEN Rejected("value_error")
               ELSE /\ bookings' = Replace(bookings, b,
                                           [b EXCEPT !.status = "confirmed"])
                    /\ \E emitted \in BOOLEAN :
                         /\ events' = EmitEvent(events, t,
                                                "BOOKING_CONFIRMED", id,
                                                emitted)
                         /\ lastOp' = Op("confirm_booking", q,
                                         IF emitted THEN "true"
                                         ELSE "emit_error", id, NoSlots)

\* A cancel_booking without its status check.
CancelRejects_None == {}

CancelRejects == {"canceled", "completed"}

cancel_booking(t, id) ==
    /\ UNCHANGED <<holds, holdCache, availCache, customers, schedules, finVars,
                   now, nextHold, procVars>>
    /\ IF get_booking(bookings, t, id) = {}
       THEN Unchanged("cancel_booking", t, id, "none")
       ELSE \E b \in get_booking(bookings, t, id) :
            IF b.status \in CancelRejects
            THEN Unchanged("cancel_booking", t, id, "value_error")
            ELSE /\ bookings' = Replace(bookings, b,
                                        [b EXCEPT !.status = "canceled"])
                 /\ UNCHANGED events
                 /\ lastOp' = Op("cancel_booking", Req(t, "none", 0, 0, id),
                                 "canceled", id, NoSlots)

mark_no_show(t, id) ==
    /\ UNCHANGED <<holds, holdCache, availCache, customers, schedules, finVars,
                   now, nextHold, procVars>>
    /\ IF get_booking(bookings, t, id) = {}
       THEN Unchanged("mark_no_show", t, id, "none")
       ELSE \E b \in get_booking(bookings, t, id) :
            IF b.status \notin StrictStatuses
            THEN Unchanged("mark_no_show", t, id, "value_error")
            ELSE /\ bookings' = Replace(bookings, b,
                                        [b EXCEPT !.status = "no_show",
                                                  !.no_show_flag = TRUE])
                 /\ UNCHANGED events
                 /\ lastOp' = Op("mark_no_show", Req(t, "none", 0, 0, id),
                                 "no_show", id, NoSlots)

\* A status check that lets every status through.
Reschedulable_Any == AllStatuses

Reschedulable == {"confirmed", "checked_in"}

reschedule_booking(t, id, s, e) ==
    /\ UNCHANGED <<holds, holdCache, availCache, customers, schedules, finVars,
                   now, nextHold, procVars, events>>
    /\ IF get_booking(bookings, t, id) = {}
       THEN /\ lastOp' = Op("reschedule_booking", Req(t, "none", s, e, id),
                            "none", id, NoSlots)
            /\ UNCHANGED bookings
       ELSE \E b \in get_booking(bookings, t, id) :
            IF b.status \notin Reschedulable
            THEN /\ lastOp' = Op("reschedule_booking", Req(t, "none", s, e,
                                 id),
                                 "value_error", id, NoSlots)
                 /\ UNCHANGED bookings
            ELSE IF ~ValidRange(s, e)
            THEN /\ lastOp' = Op("reschedule_booking", Req(t, "none", s, e,
                                 id),
                                 "validation_error", id, NoSlots)
                 /\ UNCHANGED bookings
            ELSE IF ~is_time_available(t, b.resource, s, e)
            THEN /\ lastOp' = Op("reschedule_booking", Req(t, "none", s, e,
                                 id),
                                 "unavailable", id, NoSlots)
                 /\ UNCHANGED bookings
            ELSE /\ bookings' = Replace(bookings, b,
                                        [b EXCEPT !.start_at = s,
                                                  !.end_at = e])
                 /\ lastOp' = Op("reschedule_booking", Req(t, "none", s, e,
                                 id),
                                 "rescheduled", id, NoSlots)

(***************************************************************************)
(* AvailabilityService.calculate_availability                              *)
(***************************************************************************)
calculate_availability(t, r, start_date, end_date) ==
    /\ UNCHANGED <<bookings, holds, holdCache, events, customers, schedules,
                   finVars, now, nextHold, procVars>>
    /\ LET hit == {c \in CacheGet(availCache, t, r, DateOf(start_date)) :
                      c.slots # << >>}
       IN  IF hit # {}
           THEN /\ \E c \in hit :
                     lastOp' = Op("calculate_availability", Req(t, r,
                                  start_date, end_date, 0),
                                  "cached", NoId, c.slots)
                /\ UNCHANGED availCache
           ELSE IF ~\E x \in Resources : x.tenant = t /\ x.id = r
           THEN /\ lastOp' = Op("calculate_availability", Req(t, r,
                                start_date, end_date, 0),
                                "not_found", NoId, NoSlots)
                /\ UNCHANGED availCache
           ELSE IF ~\E sp \in StaffProfiles :
                        sp.tenant = t /\ sp.resource = r
           THEN /\ lastOp' = Op("calculate_availability", Req(t, r,
                                start_date, end_date, 0),
                                "default", NoId, ComputeSlots(t, r,
                                start_date, end_date))
                /\ UNCHANGED availCache
           ELSE /\ availCache' = CacheSet(availCache, t, r,
                                    DateOf(start_date),
                                    ComputeSlots(t, r, start_date, end_date))
                /\ lastOp' = Op("calculate_availability", Req(t, r,
                                start_date, end_date, 0),
                                "computed", NoId, ComputeSlots(t, r,
                                start_date, end_date))

\* An entry of the availability cache reaches its time to live.
ExpireAvailability ==
    /\ \E c \in availCache : availCache' = availCache \ {c}
    /\ UNCHANGED <<bookings, holds, holdCache, events, customers, schedules,
                   finVars, now, nextHold, lastOp, procVars>>

(***************************************************************************)
(* Time passes; entries of the fast hold store expire on their own.        *)
(***************************************************************************)
Tick ==
    /\ now < MaxTime
    /\ now' = now + 1
    /\ holdCache' = {x \in holdCache : x.expires > now + 1}
    /\ UNCHANGED <<bookings, holds, availCache, events, customers, schedules,
                   finVars, nextHold, lastOp, procVars>>

(***************************************************************************)
(* Initial state.                                                          *)
(***************************************************************************)
Procs == {"p1", "p2"}
NoLocal == [op |-> "none", req |-> NoReq, result |-> "none", id |-> NoId,
            hold_until |-> 0]
Workers == {"w1", "w2"}
IdleWorker == [pc |-> "idle", batch |-> << >>, loaded |-> {}, processed |-> 0]

\* The payments table: one captured payment with a Stripe payment intent
\* and one payment that has none.
InitPayments ==
    {[id |-> 1, tenant |-> "t1", amount_cents |-> 2,
      provider_payment_id |-> TRUE, status |-> "captured"],
     [id |-> 2, tenant |-> "t1", amount_cents |-> 1,
      provider_payment_id |-> FALSE, status |-> "requires_action"]}

\* The payment_methods table: three cards of one customer, the first one
\* the default, and one card of a customer of the other tenant.
InitMethods ==
    {[id |-> 1, tenant |-> "t1", customer |-> "c1", is_default |-> TRUE],
     [id |-> 2, tenant |-> "t1", customer |-> "c1", is_default |-> FALSE],
     [id |-> 3, tenant |-> "t1", customer |-> "c1", is_default |-> FALSE],
     [id |-> 4, tenant |-> "t2", customer |-> "c2", is_default |-> TRUE]}

IdleFin == [pc |-> "idle", tenant |-> "none", method |-> NoId,
            matched |-> {}, unset |-> {}]

Init ==
    /\ payments = InitPayments
    /\ refunds = {}
    /\ methods = InitMethods
    /\ finProc = [p \in Procs |-> IdleFin]
    /\ bookings = {}
    /\ holds = {}
    /\ holdCache = {}
    /\ availCache = {}
    /\ events = {}
    /\ customers = 0
    /\ schedules = InitSchedules
    /\ now = 0
    /\ nextHold = 1
    /\ lastOp = NoOp
    /\ pc = [p \in Procs |-> "idle"]
    /\ local = [p \in Procs |-> NoLocal]
    /\ worker = [w \in Workers |-> IdleWorker]

Ranges == {<<0, 1439>>}
BookingIds == 1..MaxBookings
HoldKeys == 1..(MaxHolds + 1)
Creators == {"t1"}
MiddleIntervals == {<<570, 630>>, <<600, 600>>}

(***************************************************************************)
(* Spec: the hold manager.  One tenant creates holds on any interval and    *)
(* requests bookings on the interval that overlaps the two others, either  *)
(* tenant releases holds, and time passes.                                 *)
(***************************************************************************)
BookMiddle ==
    \E t \in Creators, r \in ResourceIds, i \in MiddleIntervals :
        create_booking(t, r, i[1], i[2], NoToken, FALSE)

CreateBookingHold ==
    \E t \in Creators, r \in ResourceIds, i \in Intervals, ttl \in TtlMinutes :
        create_booking_hold(t, r, i[1], i[2], ttl)

ReleaseBookingHold ==
    \E t \in Tenants, key \in HoldKeys : release_booking_hold(t, key)

Next ==
    \/ BookMiddle
    \/ CreateBookingHold
    \/ ReleaseBookingHold
    \/ Tick

Spec == Init /\ [][Next]_vars

(***************************************************************************)
(* SpecExpiry: holds on one interval expire or are released while bookings *)
(* that overlap it are requested, confirmed and moved onto it.             *)
(***************************************************************************)
HeldInterval == <<600, 660>>
LateInterval == <<630, 690>>

HoldLate ==
    \E t \in Creators, ttl \in TtlMinutes :
        create_booking_hold(t, "r1", HeldInterval[1], HeldInterval[2], ttl)

ConfirmMiddle ==
    \E t \in Creators, id \in BookingIds : confirm_booking(t, id, FALSE)

RescheduleLateAny ==
    \E t \in Tenants, id \in BookingIds :
        reschedule_booking(t, id, LateInterval[1], LateInterval[2])

RescheduleLate ==
    \E t \in Creators, id \in BookingIds :
        reschedule_booking(t, id, LateInterval[1], LateInterval[2])

ReleaseOwnHold ==
    \E t \in Creators, key \in HoldKeys : release_booking_hold(t, key)

NextExpiry ==
    \/ BookMiddle
    \/ ConfirmMiddle
    \/ RescheduleLate
    \/ HoldLate
    \/ ReleaseOwnHold
    \/ Tick

SpecExpiry == Init /\ [][NextExpiry]_vars


(***************************************************************************)
(* Properties of the hold manager, checked under Spec.                     *)
(***************************************************************************)
BookingBlocks(t, r, s, e) ==
    \E b \in bookings : /\ b.tenant = t /\ b.resource = r
                        /\ b.status \in {"pending", "confirmed", "checked_in"}
                        /\ Overlaps(b.start_at, b.end_at, s, e)

LiveHoldBlocks(t, r, s, e) ==
    \E h \in holds : /\ h.tenant = t /\ h.resource = r
                     /\ now < h.hold_until
                     /\ Overlaps(h.start_at, h.end_at, s, e)

ExpiredHoldOverlaps(t, r, s, e) ==
    \E h \in holds : /\ h.tenant = t /\ h.resource = r
                     /\ now >= h.hold_until
                     /\ Overlaps(h.start_at, h.end_at, s, e)

OwnsStaffedResource(t, r) ==
    \E sp \in StaffProfiles : sp.tenant = t /\ sp.resource = r

\* A step is a call of op when it records op's outcome; q is the call's
\* arguments.
Called(op) == lastOp' # lastOp /\ lastOp'.op = op

\* C6: a hold whose hold_until has been reached blocks no check.  A booking,
\* a hold or a reschedule requested at a time >= hold_until on an interval
\* that only expired holds overlap is not rejected: the booking row,
\* respectively the hold row or the new interval, is written although the
\* expired rows are still in the table.
HoldExpiryMonotonic ==
    [][ LET q == lastOp'.req IN
        /\ ( /\ Called("create_booking")
             /\ q.start_at < q.end_at
             /\ OwnsStaffedResource(q.tenant, q.resource)
             /\ ~BookingBlocks(q.tenant, q.resource, q.start_at, q.end_at)
             /\ ~LiveHoldBlocks(q.tenant, q.resource, q.start_at, q.end_at) )
           => /\ lastOp'.result \in {"created", "emit_error"}
              /\ \E b \in bookings' \ bookings :
                   /\ b.id = lastOp'.id
                   /\ b.start_at = q.start_at /\ b.end_at = q.end_at
        /\ ( /\ Called("create_booking_hold")
             /\ q.start_at < q.end_at
             /\ OwnsStaffedResource(q.tenant, q.resource)
             /\ ~BookingBlocks(q.tenant, q.resource, q.start_at, q.end_at)
             /\ ~LiveHoldBlocks(q.tenant, q.resource, q.start_at, q.end_at) )
           => lastOp'.result \in {"created", "db_error"}
        /\ \A b \in bookings :
             ( /\ Called("reschedule_booking")
               /\ b.tenant = q.tenant /\ b.id = q.key
               /\ b.status \in {"confirmed", "checked_in"}
               /\ q.start_at < q.end_at
               /\ OwnsStaffedResource(b.tenant, b.resource)
               /\ ~BookingBlocks(b.tenant, b.resource, q.start_at, q.end_at)
               /\ ~LiveHoldBlocks(b.tenant, b.resource, q.start_at, q.end_at) )
             => /\ lastOp'.result = "rescheduled"
                /\ \E c \in bookings' :
                     c.id = b.id /\ c.start_at = q.start_at
                                /\ c.end_at = q.end_at
      ]_vars

\* A confirmed booking was just moved onto an interval that an expired hold
\* row overlaps.
RescheduledOverExpiredHold ==
    /\ lastOp.op = "reschedule_booking"
    /\ lastOp.result = "rescheduled"
    /\ \E b \in bookings :
         /\ b.id = lastOp.id
         /\ ExpiredHoldOverlaps(b.tenant, b.resource, b.start_at, b.end_at)

\* C6 witness: a booking was just written over a hold row that is still in
\* the table and whose hold_until has passed.
BookedOverExpiredHold ==
    /\ lastOp.op = "create_booking"
    /\ lastOp.result \in {"created", "emit_error"}
    /\ ExpiredHoldOverlaps(lastOp.req.tenant, lastOp.req.resource,
                           lastOp.req.start_at, lastOp.req.end_at)

\* C9: a hold request on an interval that a blocking booking or a live hold
\* overlaps raises the slot-unavailable error and writes nothing: the holds
\* table, the fast store and the availability cache are as before.
RejectedHoldCreatesNothing ==
    [][ LET q == lastOp'.req IN
        ( /\ Called("create_booking_hold")
          /\ q.start_at < q.end_at
          /\ \/ BookingBlocks(q.tenant, q.resource, q.start_at, q.end_at)
             \/ LiveHoldBlocks(q.tenant, q.resource, q.start_at, q.end_at) )
        => /\ lastOp'.result = "unavailable"
           /\ UNCHANGED <<holds, holdCache, availCache, nextHold>>
      ]_vars

\* C9 witness: a hold request was just rejected while a live hold or a
\* blocking booking overlaps the requested interval.
HoldRejectedOnConflict ==
    /\ lastOp.op = "create_booking_hold"
    /\ lastOp.result = "unavailable"
    /\ \/ LiveHoldBlocks(lastOp.req.tenant, lastOp.req.resource,
                         lastOp.req.start_at, lastOp.req.end_at)
       \/ BookingBlocks(lastOp.req.tenant, lastOp.req.resource,
                        lastOp.req.start_at, lastOp.req.end_at)

\* C11: when the commit of the hold row fails after the fast-store write,
\* the call raises its database error and leaves no entry of its hold_key in
\* the fast store and no row of it in the holds table; holds, fast store and
\* availability cache are as before the call, so the interval is as free as
\* it was for the failed call.
FailedHoldLeavesNothing ==
    [][ LET q == lastOp'.req IN
        ( /\ Called("create_booking_hold")
          /\ lastOp'.result = "db_error" )
        => /\ \A x \in holdCache' :
                 ~(x.tenant = q.tenant /\ x.hold_key = lastOp'.id)
           /\ \A h \in holds' : h.hold_key # lastOp'.id
           /\ UNCHANGED <<holds, holdCache, availCache, bookings>>
           /\ ~BookingBlocks(q.tenant, q.resource, q.start_at, q.end_at)
           /\ ~LiveHoldBlocks(q.tenant, q.resource, q.start_at, q.end_at)
      ]_vars

\* C11 witness: a hold request has just failed at its commit, and the fast
\* store holds nothing under its key.
HoldCommitFailed ==
    /\ lastOp.op = "create_booking_hold"
    /\ lastOp.result = "db_error"
    /\ \A x \in holdCache : x.hold_key # lastOp.id

\* C10: releasing a hold key that is unknown for the tenant, or a hold whose
\* hold_until has passed, returns false and changes nothing (the database
\* accepting what the call writes, if it writes).
ReleaseUnknownOrExpiredIsNoOp ==
    [][ LET q == lastOp'.req IN
        ( /\ Called("release_booking_hold")
          /\ lastOp'.result # "db_error"
          /\ \A h \in holds :
               (h.tenant = q.tenant /\ h.hold_key = q.key)
                   => now >= h.hold_until )
        => /\ lastOp'.result = "false"
           /\ UNCHANGED <<holds, holdCache, availCache>>
      ]_vars


(***************************************************************************)
(* SpecIdempotent: sequential create_booking calls of both tenants, with   *)
(* and without a client_generated_id, and cancellations.                   *)
(***************************************************************************)
AdjacentIntervals == {<<540, 600>>, <<600, 660>>}

CreateBooking ==
    \E t \in Tenants, r \in ResourceIds, i \in AdjacentIntervals,
       k \in Tokens \cup {NoToken} :
        create_booking(t, r, i[1], i[2], k, FALSE)

CancelBooking == \E t \in Tenants, id \in BookingIds : cancel_booking(t, id)

NextIdempotent == CreateBooking \/ CancelBooking

SpecIdempotent == Init /\ [][NextIdempotent]_vars

RowsOfToken(bs, t, k) ==
    {b \in bs : b.tenant = t /\ b.client_generated_id = <<"client", k>>}

\* C2: sequential create_booking calls with the same tenant and the same
\* client_generated_id all return the id of one and the same row, the only
\* row of that (tenant, token); a call that finds the row writes no booking,
\* and the row of another tenant with the same token is never returned.
IdempotentCreate ==
    /\ [](\A t \in Tenants, k \in Tokens :
             Cardinality(RowsOfToken(bookings, t, k)) <= 1)
    /\ [][ LET q == lastOp'.req IN
           ( /\ Called("create_booking")
             /\ q.key # NoToken
             /\ q.start_at < q.end_at )
           => /\ RowsOfToken(bookings, q.tenant, q.key) # {}
                 => /\ lastOp'.result = "existing"
                    /\ \E b \in RowsOfToken(bookings, q.tenant, q.key) :
                         lastOp'.id = b.id
                    /\ bookings' = bookings
              /\ RowsOfToken(bookings, q.tenant, q.key) = {}
                 => /\ lastOp'.result # "existing"
                    /\ lastOp'.result \in {"created", "emit_error"}
                       => \E b \in RowsOfToken(bookings', q.tenant, q.key) :
                            lastOp'.id = b.id
         ]_vars

\* C2 witness: a repeated call has just returned the existing row of its
\* tenant while the other tenant owns a row with the same token.
RepeatedCreateReturnedExisting ==
    /\ lastOp.op = "create_booking"
    /\ lastOp.result = "existing"
    /\ \E b1, b2 \in bookings :
         /\ b1.id = lastOp.id
         /\ b1.tenant = lastOp.req.tenant
         /\ b2.tenant # b1.tenant
         /\ b1.client_generated_id = <<"client", lastOp.req.key>>
         /\ b2.client_generated_id = b1.client_generated_id


(***************************************************************************)
(* SpecLifecycle: bookings are created and then confirmed, canceled,       *)
(* marked as no-show and rescheduled by either tenant.                     *)
(***************************************************************************)
BookAdjacent ==
    \E t \in Creators, r \in ResourceIds, i \in AdjacentIntervals :
        create_booking(t, r, i[1], i[2], NoToken, FALSE)

BookOnce == create_booking("t1", "r1", 540, 600, NoToken, FALSE)

ConfirmBooking ==
    \E t \in Tenants, id \in BookingIds, rp \in BOOLEAN :
        confirm_booking(t, id, rp)

MarkNoShow == \E t \in Tenants, id \in BookingIds : mark_no_show(t, id)

RescheduleBooking ==
    \E t \in Tenants, id \in BookingIds, i \in Intervals :
        reschedule_booking(t, id, i[1], i[2])

NextLifecycle ==
    \/ BookAdjacent
    \/ ConfirmBooking
    \/ CancelBooking
    \/ MarkNoShow
    \/ RescheduleBooking

SpecLifecycle == Init /\ [][NextLifecycle]_vars

StatusEdges ==
    {<<"pending", "confirmed">>, <<"pending", "canceled">>,
     <<"confirmed", "checked_in">>, <<"confirmed", "canceled">>,
     <<"confirmed", "no_show">>, <<"checked_in", "completed">>,
     <<"checked_in", "canceled">>, <<"checked_in", "no_show">>}

\* C3: every status change of a booking is an edge of the state machine;
\* in particular canceled, completed, no_show and failed are never left.
StatusTransitionClosure ==
    [][ \A b \in bookings : \A c \in bookings' :
          (c.id = b.id /\ c.status # b.status)
              => <<b.status, c.status>> \in StatusEdges ]_vars

\* C5: a booking write and its outbox row are committed together: a step
\* changes the bookings table exactly when it adds an outbox row for the
\* booking it wrote.
EventCommittedWithWrite ==
    [][ /\ \A c \in bookings' \ bookings :
             \E ev \in events' \ events : ev.booking = c.id
        /\ \A ev \in events' \ events :
             \E c \in bookings' \ bookings : ev.booking = c.id ]_vars

(***************************************************************************)
(* SpecReschedule: one tenant books one interval again and again, takes    *)
(* the bookings through their statuses and moves them to a later interval. *)
(***************************************************************************)
CancelOwn == \E t \in Creators, id \in BookingIds : cancel_booking(t, id)

MarkOwnNoShow == \E t \in Creators, id \in BookingIds : mark_no_show(t, id)

NextReschedule ==
    \/ BookOnce
    \/ ConfirmMiddle
    \/ CancelOwn
    \/ MarkOwnNoShow
    \/ RescheduleLate

SpecReschedule == Init /\ [][NextReschedule]_vars

\* Another booking of the resource, in a blocking status, overlaps [s, e).
OtherBookingBlocks(b, s, e) ==
    \E o \in bookings : /\ o.id # b.id
                         /\ o.tenant = b.tenant /\ o.resource = b.resource
                         /\ o.status \in {"pending", "confirmed", "checked_in"}
                         /\ Overlaps(o.start_at, o.end_at, s, e)

\* C12: rescheduling a confirmed or checked_in booking onto an interval
\* that no other blocking booking and no live hold of the resource overlaps
\* succeeds and moves the booking; the booking's own current interval does
\* not count as a conflict.
RescheduleExcludesSelf ==
    [][ LET q == lastOp'.req IN
        \A b \in bookings :
          ( /\ Called("reschedule_booking")
            /\ b.tenant = q.tenant /\ b.id = q.key
            /\ b.status \in {"confirmed", "checked_in"}
            /\ q.start_at < q.end_at
            /\ OwnsStaffedResource(b.tenant, b.resource)
            /\ ~OtherBookingBlocks(b, q.start_at, q.end_at)
            /\ ~LiveHoldBlocks(b.tenant, b.resource, q.start_at, q.end_at) )
          => /\ lastOp'.result = "rescheduled"
             /\ \E c \in bookings' :
                  /\ c.id = b.id
                  /\ c.start_at = q.start_at /\ c.end_at = q.end_at
      ]_vars

\* C13: rescheduling a booking whose status is not confirmed or checked_in
\* is rejected with the status error and the bookings table is unchanged.
RescheduleRejectsOtherStatuses ==
    [][ LET q == lastOp'.req IN
        \A b \in bookings :
          ( /\ Called("reschedule_booking")
            /\ b.tenant = q.tenant /\ b.id = q.key
            /\ b.status \notin {"confirmed", "checked_in"} )
          => /\ lastOp'.result = "value_error"
             /\ bookings' = bookings
      ]_vars

\* C13 witness: a reschedule onto a valid interval that nothing else
\* occupies was just rejected for a booking that is canceled or no_show, and
\* the booking is where it was.
RescheduleRejectedForTerminal ==
    /\ lastOp.op = "reschedule_booking"
    /\ lastOp.result = "value_error"
    /\ lastOp.req.start_at < lastOp.req.end_at
    /\ \E b \in bookings :
         /\ b.id = lastOp.id /\ b.tenant = lastOp.req.tenant
         /\ b.status \in {"canceled", "no_show"}
         /\ b.start_at # lastOp.req.start_at
         /\ ~OtherBookingBlocks(b, lastOp.req.start_at, lastOp.req.end_at)

(***************************************************************************)
(* SpecAvailability: bookings and holds are created on the hour slots of   *)
(* day 0 and availability is computed for that day through the cache.      *)
(***************************************************************************)
CalculateAvailability ==
    \E t \in Tenants, r \in ResourceIds, rg \in Ranges :
        calculate_availability(t, r, rg[1], rg[2])

HoldAdjacent ==
    \E t \in Creators, r \in ResourceIds, i \in AdjacentIntervals,
       ttl \in TtlMinutes :
        create_booking_hold(t, r, i[1], i[2], ttl)

NextAvailability ==
    \/ BookAdjacent
    \/ HoldAdjacent
    \/ CalculateAvailability
    \/ ExpireAvailability

SpecAvailability == Init /\ [][NextAvailability]_vars

SlotsOverlapping(slots, s, e) ==
    {n \in DOMAIN slots : Overlaps(slots[n].start_at, slots[n].end_at, s, e)}

\* C7: the calculate_availability that directly follows a successful
\* create_booking or create_booking_hold on the same resource, over a range
\* containing the interval, returns every slot overlapping the interval with
\* available = false.
CacheCoherence ==
    [][ LET q == lastOp'.req
            c == lastOp.req
        IN ( /\ Called("calculate_availability")
             /\ lastOp.op \in {"create_booking", "create_booking_hold"}
             /\ lastOp.result \in {"created", "emit_error"}
             /\ q.tenant = c.tenant /\ q.resource = c.resource
             /\ q.start_at <= c.start_at /\ c.end_at <= q.end_at )
           => /\ SlotsOverlapping(lastOp'.slots, c.start_at, c.end_at) # {}
              /\ \A n \in SlotsOverlapping(lastOp'.slots, c.start_at,
                                           c.end_at) :
                   ~lastOp'.slots[n].available ]_vars


(***************************************************************************)
(* SpecConcurrent: two requests, each a create_booking or a                *)
(* create_booking_hold, run at the same time.  A request advances by one   *)
(* database statement, fast-store call or commit per step, and every       *)
(* query sees the rows committed so far.                                   *)
(***************************************************************************)
Goto(p, label) == pc' = [pc EXCEPT ![p] = label]

Finish(p, result, id) ==
    /\ pc' = [pc EXCEPT ![p] = "done"]
    /\ local' = [local EXCEPT ![p].result = result, ![p].id = id]

StartCreateBooking(p, t, r, s, e, k) ==
    /\ pc[p] = "idle"
    /\ local' = [local EXCEPT ![p] =
                    [op |-> "create_booking", req |-> Req(t, r, s, e, k),
                     result |-> IF ValidRange(s, e) THEN "running"
                                ELSE "validation_error",
                     id |-> NoId, hold_until |-> 0]]
    /\ Goto(p, IF ValidRange(s, e) THEN "cb_idempotency" ELSE "done")
    /\ UNCHANGED <<dbVars, finVars, now, lastOp, worker>>

StartCreateHold(p, t, r, s, e, ttl) ==
    /\ pc[p] = "idle"
    /\ local' = [local EXCEPT ![p] =
                    [op |-> "create_booking_hold", req |-> Req(t, r, s, e,
                     ttl),
                     result |-> IF ValidRange(s, e) THEN "running"
                                ELSE "validation_error",
                     id |-> NoId, hold_until |-> 0]]
    /\ Goto(p, IF ValidRange(s, e) THEN "avail_bookings" ELSE "done")
    /\ UNCHANGED <<dbVars, finVars, now, lastOp, worker>>

\* create_booking: the query for a booking with the caller's token.
CbIdempotency(p) ==
    /\ pc[p] = "cb_idempotency"
    /\ LET q == local[p].req IN
       IF q.key # NoToken /\ IdempotentMatches(bookings, q.tenant, q.key) # {}
       THEN \E b \in IdempotentMatches(bookings, q.tenant, q.key) :
                Finish(p, "existing", b.id)
       ELSE Goto(p, "cb_overlap") /\ UNCHANGED local
    /\ UNCHANGED <<dbVars, finVars, now, lastOp, worker>>

\* create_booking: the query for an overlapping confirmed or checked-in
\* booking.
CbOverlap(p) ==
    /\ pc[p] = "cb_overlap"
    /\ LET q == local[p].req IN
       IF ExistingBooking(bookings, q.tenant, q.resource, q.start_at,
                          q.end_at, StrictStatuses)
       THEN Finish(p, "conflict", NoId)
       ELSE Goto(p, "avail_bookings") /\ UNCHANGED local
    /\ UNCHANGED <<dbVars, finVars, now, lastOp, worker>>

\* is_time_available: the bookings query.
AvailBookings(p) ==
    /\ pc[p] = "avail_bookings"
    /\ LET q == local[p].req IN
       IF ExistingBooking(bookings, q.tenant, q.resource, q.start_at,
                          q.end_at, BlockingStatuses)
       THEN Finish(p, "unavailable", NoId)
       ELSE Goto(p, "avail_holds") /\ UNCHANGED local
    /\ UNCHANGED <<dbVars, finVars, now, lastOp, worker>>

\* is_time_available: the holds query, then the staff profile and its
\* schedules.
AvailHolds(p) ==
    /\ pc[p] = "avail_holds"
    /\ LET q == local[p].req IN
       IF \/ ActiveHold(holds, q.tenant, q.resource, q.start_at, q.end_at)
          \/ ~StaffCheck(q.tenant, q.resource, q.start_at, q.end_at)
       THEN Finish(p, "unavailable", NoId)
       ELSE /\ Goto(p, IF local[p].op = "create_booking" THEN "cb_commit"
                       ELSE "ch_store")
            /\ UNCHANGED local
    /\ UNCHANGED <<dbVars, finVars, now, lastOp, worker>>

\* create_booking: _safe_db_operation adds the row and commits.
CbCommit(p) ==
    /\ pc[p] = "cb_commit"
    /\ Cardinality(bookings) < MaxBookings
    /\ LET q == local[p].req
           id == FreshBookingId(bookings)
       IN /\ bookings' = bookings
                 \cup {NewBooking(id, q.tenant, q.resource, q.start_at,
                                  q.end_at, q.key)}
          /\ local' = [local EXCEPT ![p].id = id]
    /\ Goto(p, "cb_emit")
    /\ UNCHANGED <<holds, holdCache, availCache, events, customers,
                   schedules, finVars, nextHold, now, lastOp, worker>>

\* create_booking: _emit_event, committed on its own.
CbEmit(p) ==
    /\ pc[p] = "cb_emit"
    /\ \E emitted \in BOOLEAN :
         /\ events' = EmitEvent(events, local[p].req.tenant,
                                "BOOKING_CREATED", local[p].id, emitted)
         /\ Finish(p, IF emitted THEN "created" ELSE "emit_error",
                   local[p].id)
    /\ UNCHANGED <<bookings, holds, holdCache, availCache, customers,
                   schedules, finVars, nextHold, now, lastOp, worker>>

\* create_booking_hold: the hold key is generated, the entry is written to
\* the fast store and the row is built.
ChStore(p) ==
    /\ pc[p] = "ch_store"
    /\ nextHold <= MaxHolds
    /\ nextHold' = nextHold + 1
    /\ holdCache' = HoldCacheCreate(holdCache, local[p].req.tenant, nextHold,
                                    now + local[p].req.key)
    /\ local' = [local EXCEPT ![p].id = nextHold,
                              ![p].hold_until = now + local[p].req.key]
    /\ Goto(p, "ch_commit")
    /\ UNCHANGED <<bookings, holds, availCache, events, customers, schedules,
                   finVars, now, lastOp, worker>>

\* create_booking_hold: the commit of the row, or its failure, which
\* removes the fast-store entry again.
ChCommit(p) ==
    /\ pc[p] = "ch_commit"
    /\ LET q == local[p].req IN
       \E committed \in BOOLEAN :
         IF committed
         THEN /\ holds' = holds
                     \cup {[hold_key |-> local[p].id, tenant |-> q.tenant,
                            resource |-> q.resource, start_at |-> q.start_at,
                            end_at |-> q.end_at,
                            hold_until |-> local[p].hold_until]}
              /\ Goto(p, "ch_invalidate")
              /\ UNCHANGED <<holdCache, local>>
         ELSE /\ holdCache' = RollbackHold(holdCache, q.tenant,
                                           local[p].id)
              /\ Finish(p, "db_error", local[p].id)
              /\ UNCHANGED holds
    /\ UNCHANGED <<bookings, availCache, events, customers, schedules, finVars,
                   nextHold, now, lastOp, worker>>

\* create_booking_hold: the availability cache of the resource is dropped.
ChInvalidate(p) ==
    /\ pc[p] = "ch_invalidate"
    /\ availCache' = InvalidateAvailability(availCache, local[p].req.tenant,
                                            local[p].req.resource)
    /\ Finish(p, "created", local[p].id)
    /\ UNCHANGED <<bookings, holds, holdCache, events, customers, schedules,
                   finVars, nextHold, now, lastOp, worker>>

OverlappingIntervals == {<<540, 600>>, <<570, 630>>}

NextConcurrent ==
    \/ \E p \in Procs, t \in Creators, i \in OverlappingIntervals,
          k \in Tokens \cup {NoToken} :
           StartCreateBooking(p, t, "r1", i[1], i[2], k)
    \/ \E p \in Procs, t \in Creators, i \in OverlappingIntervals :
           StartCreateHold(p, t, "r1", i[1], i[2], 1)
    \/ \E p \in Procs : CbIdempotency(p)
    \/ \E p \in Procs : CbOverlap(p)
    \/ \E p \in Procs : AvailBookings(p)
    \/ \E p \in Procs : AvailHolds(p)
    \/ \E p \in Procs : CbCommit(p)
    \/ \E p \in Procs : CbEmit(p)
    \/ \E p \in Procs : ChStore(p)
    \/ \E p \in Procs : ChCommit(p)
    \/ \E p \in Procs : ChInvalidate(p)

SpecConcurrent == Init /\ [][NextConcurrent]_vars

\* The committed claims on a resource: bookings in a blocking status and
\* holds that have not expired.
Claims ==
    {[kind |-> "booking", id |-> b.id, tenant |-> b.tenant,
      resource |-> b.resource, start_at |-> b.start_at, end_at |-> b.end_at] :
        b \in {x \in bookings :
                 x.status \in {"pending", "confirmed", "checked_in"}}}
    \cup
    {[kind |-> "hold", id |-> h.hold_key, tenant |-> h.tenant,
      resource |-> h.resource, start_at |-> h.start_at, end_at |-> h.end_at] :
        h \in {x \in holds : now < x.hold_until}}

Succeeded(p) ==
    pc[p] = "done" /\ local[p].result \in {"created", "emit_error"}

\* C1: no two committed claims of a resource overlap, and of two concurrent
\* requests for overlapping intervals at most one is granted.
NoDoubleBooking ==
    /\ \A x, y \in Claims :
         (x # y /\ x.tenant = y.tenant /\ x.resource = y.resource)
             => ~Overlaps(x.start_at, x.end_at, y.start_at, y.end_at)
    /\ \A p, o \in Procs :
         ( /\ p # o /\ Succeeded(p) /\ Succeeded(o)
           /\ local[p].req.tenant = local[o].req.tenant
           /\ local[p].req.resource = local[o].req.resource )
         => ~Overlaps(local[p].req.start_at, local[p].req.end_at,
                      local[o].req.start_at, local[o].req.end_at)

Returned(p) ==
    /\ pc[p] = "done"
    /\ local[p].op = "create_booking"
    /\ local[p].result \in {"created", "existing"}

\* C8: concurrent create_booking calls with the same tenant and
\* client_generated_id leave at most one row with that token, and every
\* call that returns a booking returns that row.
ConcurrentIdempotentCreate ==
    /\ \A t \in Tenants, k \in Tokens :
         Cardinality(RowsOfToken(bookings, t, k)) <= 1
    /\ \A p, o \in Procs :
         ( /\ Returned(p) /\ Returned(o)
           /\ local[p].req.key # NoToken
           /\ local[p].req.key = local[o].req.key
           /\ local[p].req.tenant = local[o].req.tenant )
         => local[p].id = local[o].id


(***************************************************************************)
(* FairOutbox: the outbox and its dispatcher.  Rows are written by         *)
(* create_booking and by writers that use the column defaults of           *)
(* EventOutbox; process_ready_outbox_events selects a batch and handles    *)
(* its rows one commit at a time; the admin endpoint re-queues a row.      *)
(***************************************************************************)
DEFAULT_MAX_ATTEMPTS == 3
BATCH_LIMIT == 100

EventCodes == {"NOTIFY_BOOKING_REMINDER", "BOOKING_CREATED"}

\* The codes of EventCodes that start with NOTIFY_, WEBHOOK_ or ANALYTICS_.
HandledCodes == {"NOTIFY_BOOKING_REMINDER"}

EventIds == 1..(MaxEvents + 1)

\* A row inserted with the column defaults of the model.
EnqueueEvent(t, code, force_fail) ==
    /\ Cardinality(events) < MaxEvents
    /\ events' = events \cup
           {[id |-> FreshEventId(events), tenant |-> t, event_code |-> code,
             booking |-> NoId, status |-> "ready", attempts |-> 0,
             max_attempts |-> DEFAULT_MAX_ATTEMPTS, ready_at |-> now,
             force_fail |-> force_fail, handled |-> 0]}
    /\ UNCHANGED <<bookings, holds, holdCache, availCache, customers,
                   schedules, finVars, now, nextHold, lastOp, procVars>>

_process_single_event(ev) ==
    IF ev.event_code \in HandledCodes THEN ~ev.force_fail ELSE TRUE

ReadyEvents ==
    {ev \in events : /\ ev.status = "ready"
                     /\ ev.attempts < ev.max_attempts
                     /\ ev.ready_at <= now}

Min(a, b) == IF a < b THEN a ELSE b

\* The orders in which the query may return the selected rows: ascending
\* ready_at, at most BATCH_LIMIT rows.
Batches ==
    LET n == Min(Cardinality(ReadyEvents), BATCH_LIMIT)
        RowOf(id) == CHOOSE ev \in ReadyEvents : ev.id = id
    IN {b \in [1..n -> {ev.id : ev \in ReadyEvents}] :
          /\ \A i, j \in 1..n : i < j =>
                 /\ b[i] # b[j]
                 /\ RowOf(b[i]).ready_at <= RowOf(b[j]).ready_at
          /\ \A ev \in ReadyEvents :
                 (\E i \in 1..n : b[i] = ev.id)
                 \/ \A i \in 1..n : RowOf(b[i]).ready_at <= ev.ready_at}

\* process_ready_outbox_events of run w up to the end of its query.  The
\* session holds the selected rows as the query loaded them.
SelectBatch(w) ==
    /\ worker[w].pc = "idle"
    /\ ReadyEvents # {}
    /\ \E b \in Batches :
         worker' = [worker EXCEPT ![w] =
                       [pc |-> "processing", batch |-> b,
                        loaded |-> {ev \in events : ev.id = b[1]},
                        processed |-> 0]]
    /\ UNCHANGED <<dbVars, finVars, now, nextHold, lastOp, pc, local>>

\* An attempt counted against the row: failed at the limit, otherwise due
\* again after the backoff.
CountAttempt(ev) ==
    LET n == ev.attempts + 1
        limit == IF ev.max_attempts = 0 THEN DEFAULT_MAX_ATTEMPTS
                 ELSE ev.max_attempts
    IN IF n >= limit
       THEN [ev EXCEPT !.attempts = n, !.status = "failed"]
       ELSE [ev EXCEPT !.attempts = n,
                       !.ready_at = now + (BackoffSeconds \div 60)]

\* The row after one pass of the loop body.  celery.app is not defined in
\* the repository, so the logging call either returns (logged) or raises
\* and the except branch runs on the row as the try block left it.
Processed(ev, logged) ==
    LET tried == IF _process_single_event(ev)
                 THEN [ev EXCEPT !.status = "delivered"]
                 ELSE CountAttempt(ev)
    IN IF logged THEN tried ELSE CountAttempt(tried)

\* The UPDATE that the commit flushes: the columns whose value the loop
\* body changed in the session's copy of the row (seen) are written over
\* the row as it stands in the database (cur).  handled counts the handler
\* invocations for the row; it is no column, and it stops counting one past
\* max_attempts.
Flushed(cur, seen, after) ==
    [cur EXCEPT
       !.status = IF after.status # seen.status THEN after.status ELSE @,
       !.attempts = IF after.attempts # seen.attempts THEN after.attempts
                    ELSE @,
       !.ready_at = IF after.ready_at # seen.ready_at THEN after.ready_at
                    ELSE @,
       !.handled = Min(@ + 1, cur.max_attempts + 1)]

\* The loop body without its try statement: a handler failure or an
\* exception ends the run and its transaction is rolled back.
ProcessOne_Unguarded(w) ==
    /\ worker[w].pc = "processing"
    /\ LET id == Head(worker[w].batch)
           cur == CHOOSE x \in events : x.id = id
           seen == IF worker[w].loaded # {}
                   THEN CHOOSE x \in worker[w].loaded : TRUE
                   ELSE cur
           rest == Tail(worker[w].batch)
       IN IF _process_single_event(seen)
          THEN /\ events' = Replace(events, cur,
                                    Flushed(cur, seen, Processed(seen, TRUE)))
               /\ worker' = [worker EXCEPT ![w] =
                                IF rest = << >> THEN IdleWorker
                                ELSE [pc |-> "processing", batch |-> rest,
                                      loaded |-> {},
                                      processed |-> @.processed + 1]]
          ELSE /\ events' = Replace(events, cur,
                                    [cur EXCEPT !.handled =
                                         Min(@ + 1, cur.max_attempts + 1)])
               /\ worker' = [worker EXCEPT ![w] = IdleWorker]
    /\ UNCHANGED <<bookings, holds, holdCache, availCache, customers,
                   schedules, finVars, now, nextHold, lastOp, pc, local>>

\* One pass of the loop of process_ready_outbox_events in run w, commit
\* included.  The first row of a batch is used as the query loaded it; a
\* commit expires the session, so every later row is read again from the
\* database when the loop reaches it.  processed counts the passes that
\* reached the end of the try block.
ProcessOne(w) ==
    /\ worker[w].pc = "processing"
    /\ LET id == Head(worker[w].batch)
           cur == CHOOSE x \in events : x.id = id
           seen == IF worker[w].loaded # {}
                   THEN CHOOSE x \in worker[w].loaded : TRUE
                   ELSE cur
           rest == Tail(worker[w].batch)
       IN \E logged \in BOOLEAN :
            /\ events' = Replace(events, cur,
                                 Flushed(cur, seen, Processed(seen, logged)))
            /\ worker' = [worker EXCEPT ![w] =
                             IF rest = << >> THEN IdleWorker
                             ELSE [pc |-> "processing", batch |-> rest,
                                   loaded |-> {},
                                   processed |-> IF logged
                                                 THEN @.processed + 1
                                                 ELSE @.processed]]
    /\ UNCHANGED <<bookings, holds, holdCache, availCache, customers,
                   schedules, finVars, now, nextHold, lastOp, pc, local>>

retry_outbox_event(t, id) ==
    /\ LET found == {ev \in events : ev.tenant = t /\ ev.id = id} IN
       IF found = {}
       THEN /\ lastOp' = Op("retry_outbox_event", Req(t, "none", 0, 0, id),
                            "not_found", id, NoSlots)
            /\ UNCHANGED events
       ELSE \E ev \in found :
              /\ events' = Replace(events, ev,
                               [ev EXCEPT !.status = "ready",
                                          !.ready_at = now])
              /\ lastOp' = Op("retry_outbox_event", Req(t, "none", 0, 0, id),
                              "ok", id, NoSlots)
    /\ UNCHANGED <<bookings, holds, holdCache, availCache, customers,
                   schedules, finVars, now, nextHold, procVars>>

\* Time passes while a selectable row waits for its ready_at.
OutboxTick ==
    /\ \E ev \in events : /\ ev.status = "ready"
                          /\ ev.attempts < ev.max_attempts
                          /\ ev.ready_at > now
    /\ now' = now + 1
    /\ UNCHANGED <<dbVars, finVars, nextHold, lastOp, procVars>>

Enqueue ==
    \E code \in HandledCodes, force_fail \in BOOLEAN :
        EnqueueEvent("t1", code, force_fail)

EnqueueFailing == \E code \in HandledCodes : EnqueueEvent("t1", code, TRUE)

RetryOutboxEvent ==
    \E t \in Tenants, id \in EventIds : retry_outbox_event(t, id)

RetryOwn == \E t \in Creators, id \in EventIds : retry_outbox_event(t, id)

Dispatch == SelectBatch("w1") \/ ProcessOne("w1")

NextOutbox ==
    \/ BookOnce
    \/ EnqueueFailing
    \/ SelectBatch("w1")
    \/ ProcessOne("w1")
    \/ RetryOwn
    \/ OutboxTick

\* The dispatcher task keeps being scheduled and the clock keeps running.
FairOutbox ==
    /\ Init
    /\ [][NextOutbox]_vars
    /\ WF_vars(Dispatch)
    /\ WF_vars(OutboxTick)

Terminal(id) ==
    \E ev \in events : ev.id = id /\ ev.status \in {"delivered", "failed"}

NonTerminal(id) ==
    \E ev \in events : ev.id = id /\ ev.status \notin {"delivered", "failed"}

\* C4: under a dispatcher that keeps running and a clock that keeps
\* advancing, every outbox row that is not delivered or failed, whether
\* just enqueued or re-queued by the admin retry, eventually is.
OutboxEventuallyTerminal ==
    \A id \in EventIds : NonTerminal(id) ~> Terminal(id)


\* C14: a row that is delivered or failed is terminal: no step changes its
\* status again and no step invokes a handler for it.
TerminalRowsStayTerminal ==
    [][ \A ev \in events : \A nx \in events' :
          (ev.status \in {"delivered", "failed"} /\ nx.id = ev.id)
              => nx.status = ev.status /\ nx.handled = ev.handled ]_vars

(***************************************************************************)
(* SpecDispatchers: two runs of process_ready_outbox_events at the same   *)
(* time, over rows that deliver and rows that fail.                        *)
(***************************************************************************)
SelectAny == \E w \in Workers : SelectBatch(w)

ProcessAny == \E w \in Workers : ProcessOne(w)

NextDispatchers ==
    \/ Enqueue
    \/ SelectAny
    \/ ProcessAny
    \/ OutboxTick

SpecDispatchers == Init /\ [][NextDispatchers]_vars

\* C15: every outbox row has attempts <= max_attempts.
AttemptsWithinMax == \A ev \in events : ev.attempts <= ev.max_attempts

\* C17: for every outbox row the handler was invoked at most max_attempts
\* times.
HandlerInvocationsBounded == \A ev \in events : ev.handled <= ev.max_attempts


RowOf(rows, id) == CHOOSE x \in rows : x.id = id

\* C18: when a dispatcher run invokes the handler of a row at time t and the
\* handler fails, the row was ready and due, its attempts grows by exactly
\* one, and it becomes failed if the new attempts has reached max_attempts
\* and otherwise stays ready with ready_at = t + 60 s (so that no run handles
\* it before then); and a failed row has attempts = max_attempts after
\* exactly max_attempts handler invocations.
FailureCountsOnceAndBacksOff ==
    [][ /\ \A w \in Workers :
             ( /\ worker[w].pc = "processing"
               /\ worker'[w] # worker[w]
               /\ ~_process_single_event(
                      RowOf(events, Head(worker[w].batch))) )
             => LET cur == RowOf(events, Head(worker[w].batch))
                    new == RowOf(events', cur.id)
                IN /\ cur.status = "ready"
                   /\ cur.ready_at <= now
                   /\ new.attempts = cur.attempts + 1
                   /\ IF new.attempts >= new.max_attempts
                      THEN new.status = "failed"
                      ELSE /\ new.status = "ready"
                           /\ new.ready_at = now + (BackoffSeconds \div 60)
        /\ \A ev \in events' :
             ev.status = "failed"
             => /\ ev.attempts = ev.max_attempts
                /\ ev.handled = ev.max_attempts
      ]_vars

\* C19: every outbox row that a create_booking or confirm_booking call
\* writes has status ready, attempts 0 and ready_at no later than the time
\* of its commit, so the query of the next dispatcher run selects it.
EmittedRowsAreSelectable ==
    [][ (Called("create_booking") \/ Called("confirm_booking"))
        => \A ev \in events' \ events :
             /\ ev.status = "ready"
             /\ ev.attempts = 0
             /\ ev.ready_at <= now'
             /\ ev \in ReadyEvents'
      ]_vars

(***************************************************************************)
(* SpecBatch: one dispatcher run at a time over rows whose handlers        *)
(* succeed or fail.                                                        *)
(***************************************************************************)
NextBatch ==
    \/ Enqueue
    \/ SelectBatch("w1")
    \/ ProcessOne("w1")
    \/ OutboxTick

SpecBatch == Init /\ [][NextBatch]_vars

\* C20: a pass of the dispatcher loop commits the outcome of its own event
\* and of no other: every other row is left exactly as it was committed,
\* the status and attempts recorded for the event follow from its own
\* handler result (delivered on success; on failure ready or failed with
\* attempts raised), and after a failure the run goes on with the remaining
\* events of the batch.
EventOutcomesIndependent ==
    [][ \A w \in Workers :
          ( /\ worker[w].pc = "processing"
            /\ worker'[w] # worker[w] )
          => LET cur == RowOf(events, Head(worker[w].batch))
                 new == RowOf(events', cur.id)
             IN /\ events' \ {new} = events \ {cur}
                /\ worker'[w].batch = Tail(worker[w].batch)
                /\ IF _process_single_event(cur)
                   THEN /\ new.status = "delivered"
                        /\ new.attempts \in {cur.attempts, cur.attempts + 1}
                   ELSE /\ new.status \in {"ready", "failed"}
                        /\ new.status = "failed"
                               <=> new.attempts >= new.max_attempts
                        /\ new.status = "ready" => new.ready_at > now
                        /\ new.attempts \in {cur.attempts + 1,
                                             cur.attempts + 2}
      ]_vars

\* C20 witness: a run is in the middle of a batch of two; the handler of the
\* first event failed and that outcome is committed, and the run has gone
\* on to the second event, whose handler will succeed.
FailureCommittedMidBatch ==
    /\ worker["w1"].pc = "processing"
    /\ worker["w1"].processed = 1
    /\ Len(worker["w1"].batch) = 1
    /\ \E a, b \in events :
         /\ a.force_fail /\ a.handled = 1 /\ a.attempts = 1
         /\ a.status = "ready" /\ a.ready_at > now
         /\ b.id = Head(worker["w1"].batch)
         /\ ~b.force_fail /\ b.handled = 0 /\ b.status = "ready"

(***************************************************************************)
(* SpecIsolation: one tenant books and holds; both tenants call cancel,    *)
(* reschedule, release and retry, and the other tenant also calls confirm  *)
(* and mark_no_show, with every id and key.                                *)
(***************************************************************************)
Others == Tenants \ Creators

ConfirmForeign ==
    \E t \in Others, id \in BookingIds : confirm_booking(t, id, FALSE)

MarkNoShowForeign == \E t \in Others, id \in BookingIds : mark_no_show(t, id)

NextIsolation ==
    \/ BookOnce
    \/ HoldLate
    \/ ConfirmForeign
    \/ CancelBooking
    \/ MarkNoShowForeign
    \/ RescheduleLateAny
    \/ ReleaseBookingHold
    \/ RetryOutboxEvent

SpecIsolation == Init /\ [][NextIsolation]_vars

OfOthers(rows, t) == {x \in rows : x.tenant # t}

NotFoundResult ==
    [confirm_booking |-> "false", cancel_booking |-> "none",
     mark_no_show |-> "none", reschedule_booking |-> "none",
     release_booking_hold |-> "false", retry_outbox_event |-> "not_found"]

\* C16: a call of an id- or key-taking operation with tenant T leaves the
\* bookings, holds, outbox rows and cache entries of every other tenant as
\* they are, and when T has no row under the id or key it returns the
\* operation's not-found result and changes no table, whoever else owns a
\* row under that id or key.
TenantIsolation ==
    [][ LET q == lastOp'.req
            op == lastOp'.op
        IN ( /\ lastOp' # lastOp
             /\ op \in DOMAIN NotFoundResult )
           => /\ OfOthers(bookings', q.tenant) = OfOthers(bookings, q.tenant)
              /\ OfOthers(holds', q.tenant) = OfOthers(holds, q.tenant)
              /\ OfOthers(events', q.tenant) = OfOthers(events, q.tenant)
              /\ OfOthers(holdCache', q.tenant)
                     = OfOthers(holdCache, q.tenant)
              /\ OfOthers(availCache', q.tenant)
                     = OfOthers(availCache, q.tenant)
              /\ LET mine ==
                       IF op = "release_booking_hold"
                       THEN {h \in holds : h.tenant = q.tenant
                                           /\ h.hold_key = q.key}
                       ELSE IF op = "retry_outbox_event"
                       THEN {ev \in events : ev.tenant = q.tenant
                                             /\ ev.id = q.key}
                       ELSE {b \in bookings : b.tenant = q.tenant
                                              /\ b.id = q.key}
                 IN mine = {}
                    => /\ lastOp'.result = NotFoundResult[op]
                       /\ UNCHANGED <<bookings, holds, events, holdCache,
                                      availCache>>
      ]_vars

\* C16 witness: the other tenant has just asked to cancel a booking that
\* exists, is still cancellable and belongs to the first tenant, and was
\* told that there is no such booking.
ForeignCancelNotFound ==
    /\ lastOp.op = "cancel_booking"
    /\ lastOp.result = "none"
    /\ \E b \in bookings :
         /\ b.id = lastOp.id
         /\ b.tenant # lastOp.req.tenant
         /\ b.status \in {"pending", "confirmed"}

(***************************************************************************)
(* StaffService.create_work_schedule.  The row is committed; no cache is   *)
(* touched.  The queries that read work_schedules have no ORDER BY, so the *)
(* new row may come before or after the rows already there.                *)
(***************************************************************************)
MaxSchedules == 1

ValidScheduleTypes == {"regular", "override", "time_off", "holiday"}

\* schedule_data of the calls: a day off, an override with its own work
\* hours, and a type that is not accepted.
ScheduleData ==
    {[schedule_type |-> "time_off", start_hour |-> DEFAULT_BUSINESS_START_HOUR,
      end_hour |-> DEFAULT_BUSINESS_END_HOUR, is_time_off |-> TRUE,
      overrides_regular |-> FALSE],
     [schedule_type |-> "override", start_hour |-> 10, end_hour |-> 12,
      is_time_off |-> FALSE, overrides_regular |-> TRUE],
     [schedule_type |-> "vacation", start_hour |-> DEFAULT_BUSINESS_START_HOUR,
      end_hour |-> DEFAULT_BUSINESS_END_HOUR, is_time_off |-> TRUE,
      overrides_regular |-> FALSE]}

ScheduleDates == {0, 1}

StaffIds == {"s1", "s2"}

ResourceOfStaff(t, staff) ==
    LET sps == {sp \in StaffProfiles : sp.tenant = t /\ sp.id = staff}
    IN IF sps = {} THEN "none" ELSE (CHOOSE sp \in sps : TRUE).resource

create_work_schedule(t, staff, data, start_date) ==
    /\ UNCHANGED <<bookings, holds, holdCache, availCache, events, customers,
                   now, nextHold, procVars, finVars>>
    /\ LET q == Req(t, ResourceOfStaff(t, staff), start_date, NoDate, 0)
           row == [tenant |-> t, staff |-> staff,
                   schedule_type |-> data.schedule_type,
                   start_date |-> start_date, end_date |-> NoDate,
                   start_hour |-> data.start_hour,
                   end_hour |-> data.end_hour,
                   is_time_off |-> data.is_time_off,
                   overrides_regular |-> data.overrides_regular]
       IN IF ~\E sp \in StaffProfiles : sp.tenant = t /\ sp.id = staff
          THEN /\ lastOp' = Op("create_work_schedule", q, "not_found", NoId,
                               NoSlots)
               /\ UNCHANGED schedules
          ELSE IF data.schedule_type \notin ValidScheduleTypes
          THEN /\ lastOp' = Op("create_work_schedule", q, "validation_error",
                               NoId, NoSlots)
               /\ UNCHANGED schedules
          ELSE /\ Len(schedules) < Len(InitSchedules) + MaxSchedules
               /\ \E first \in BOOLEAN :
                    schedules' = IF first THEN <<row>> \o schedules
                                 ELSE Append(schedules, row)
               /\ lastOp' = Op("create_work_schedule", q, "created", NoId,
                               NoSlots)

(***************************************************************************)
(* SpecSchedules: one tenant adds schedules for its staff, books the first *)
(* slot, cancels it, and availability is computed over one or two days     *)
(* through the cache.                                                      *)
(***************************************************************************)
DayRanges == {<<0, 1439>>, <<0, 2879>>}

CreateWorkSchedule ==
    \E t \in Creators, staff \in StaffIds, data \in ScheduleData,
       d \in ScheduleDates :
        create_work_schedule(t, staff, data, d)

CalculateOwn ==
    \E rg \in DayRanges : calculate_availability("t1", "r1", rg[1], rg[2])

NextSchedules ==
    \/ CreateWorkSchedule
    \/ BookOnce
    \/ CancelOwn
    \/ CalculateOwn
    \/ ExpireAvailability

SpecSchedules == Init /\ [][NextSchedules]_vars

(***************************************************************************)
(* Properties of the availability calculator.                              *)
(***************************************************************************)
\* C21: in the result of a calculate_availability that did not come from
\* the cache, a slot has available = false exactly when its interval
\* overlaps a pending, confirmed or checked_in booking of the resource or a
\* hold of the resource that has not expired.
SlotAvailabilityExact ==
    [][ LET q == lastOp'.req
        IN ( /\ Called("calculate_availability")
             /\ lastOp'.result \in {"computed", "default"} )
           => \A n \in DOMAIN lastOp'.slots :
                LET sl == lastOp'.slots[n]
                IN ~sl.available
                   <=> \/ BookingBlocks(q.tenant, q.resource,
                                        sl.start_at, sl.end_at)
                       \/ LiveHoldBlocks(q.tenant, q.resource,
                                         sl.start_at, sl.end_at)
      ]_vars

\* The schedules of the staff of resource r that cover day d.
CoveringSchedules(t, r, d) ==
    {i \in DOMAIN schedules :
        /\ schedules[i].tenant = t
        /\ \E sp \in StaffProfiles : /\ sp.tenant = t /\ sp.resource = r
                                     /\ sp.id = schedules[i].staff
        /\ CoversDate(schedules[i], d)}

SlotsOfDay(slots, d) == {n \in DOMAIN slots : DateOf(slots[n].start_at) = d}

\* C22: in the result of a calculate_availability that did not come from
\* the cache, a day covered by a time-off schedule has no available slot,
\* and a day covered by an overriding schedule has only slots inside the
\* work hours of an overriding schedule, each interval once.
SchedulePrecedence ==
    [][ LET q == lastOp'.req
            slots == lastOp'.slots
        IN ( /\ Called("calculate_availability")
             /\ lastOp'.result = "computed" )
           => \A d \in DateOf(q.start_at)..DateOf(q.end_at) :
                LET cov == CoveringSchedules(q.tenant, q.resource, d)
                    over == {i \in cov : schedules[i].overrides_regular}
                IN /\ (\E i \in cov : schedules[i].is_time_off)
                      => \A n \in SlotsOfDay(slots, d) : ~slots[n].available
                   /\ over # {}
                      => /\ \A n \in SlotsOfDay(slots, d) :
                              \E i \in over :
                                /\ HourOf(slots[n].start_at)
                                       >= schedules[i].start_hour
                                /\ HourOf(slots[n].start_at)
                                       < schedules[i].end_hour
                         /\ \A m, n \in SlotsOfDay(slots, d) :
                              slots[m].start_at = slots[n].start_at
                              => m = n
      ]_vars

\* The resource whose state the last completed call changed, "none" when it
\* changed nothing.
ChangedResource ==
    IF /\ lastOp.op \in {"cancel_booking", "reschedule_booking",
                         "mark_no_show"}
       /\ lastOp.result \in {"canceled", "rescheduled", "no_show"}
    THEN (CHOOSE b \in bookings : b.id = lastOp.id).resource
    ELSE IF lastOp.op = "create_work_schedule" /\ lastOp.result = "created"
    THEN lastOp.req.resource
    ELSE "none"

\* C23: the calculate_availability that directly follows a cancel_booking,
\* reschedule_booking, mark_no_show or create_work_schedule that changed the
\* state of the resource (or a release_booking_hold of the tenant) returns
\* what the computation without the cache returns.
CacheBypassEquivalence ==
    [][ LET q == lastOp'.req
        IN ( /\ Called("calculate_availability")
             /\ lastOp'.result # "not_found"
             /\ lastOp.req.tenant = q.tenant
             /\ \/ ChangedResource = q.resource
                \/ /\ lastOp.op = "release_booking_hold"
                   /\ lastOp.result = "true" )
           => lastOp'.slots = ComputeSlots(q.tenant, q.resource,
                                           q.start_at, q.end_at)
      ]_vars

\* C27: the slots that calculate_availability returns lie on the calendar
\* days from the date of start to the date of end, and every one of those
\* days has a slot, whatever was requested and cached before.
SlotsCoverRequestedDays ==
    [][ LET q == lastOp'.req
        IN ( /\ Called("calculate_availability")
             /\ lastOp'.result # "not_found" )
           => {DateOf(lastOp'.slots[n].start_at) : n \in DOMAIN lastOp'.slots}
                  = DateOf(q.start_at)..DateOf(q.end_at)
      ]_vars

(***************************************************************************)
(* SpecValidation: one tenant books, confirms, cancels and reschedules on  *)
(* intervals that are inverted, too short, too long or within the policy.  *)
(***************************************************************************)
PolicyIntervals ==
    {<<600, 540>>, <<540, 550>>, <<540, 1050>>, <<600, 660>>}

BookPolicy ==
    \E i \in PolicyIntervals :
        create_booking("t1", "r1", i[1], i[2], NoToken, FALSE)

ReschedulePolicy ==
    \E id \in BookingIds, i \in PolicyIntervals :
        reschedule_booking("t1", id, i[1], i[2])

NextValidation ==
    \/ BookPolicy
    \/ ConfirmMiddle
    \/ CancelOwn
    \/ ReschedulePolicy

SpecValidation == Init /\ [][NextValidation]_vars

WithinPolicy(s, e) ==
    /\ s < e
    /\ e - s >= MIN_BOOKING_DURATION_MINUTES
    /\ e - s <= MAX_BOOKING_DURATION_HOURS * MinutesPerHour

\* C24: a create_booking, or a reschedule_booking of a booking that can be
\* rescheduled, whose interval is inverted or empty, shorter than the
\* minimum duration or longer than the maximum duration is rejected with a
\* validation error and changes no booking and no outbox row.
IntervalPolicyEnforced ==
    [][ LET q == lastOp'.req
        IN ( /\ \/ Called("create_booking")
                \/ /\ Called("reschedule_booking")
                   /\ \E b \in bookings : /\ b.id = lastOp'.id
                                          /\ b.tenant = q.tenant
                                          /\ b.status \in Reschedulable
             /\ ~WithinPolicy(q.start_at, q.end_at) )
           => /\ lastOp'.result = "validation_error"
              /\ UNCHANGED <<bookings, events>>
      ]_vars

(***************************************************************************)
(* Properties of create_booking.                                           *)
(***************************************************************************)
\* The request of a create_booking step passed validation and matched no
\* idempotency token.
ReachedConflictChecks ==
    /\ Called("create_booking")
    /\ lastOp'.result \notin {"validation_error", "existing"}

OnlyPendingOverlaps(t, r, s, e) ==
    /\ \E b \in bookings : /\ b.tenant = t /\ b.resource = r
                           /\ b.status = "pending"
                           /\ Overlaps(b.start_at, b.end_at, s, e)
    /\ ~ExistingBooking(bookings, t, r, s, e, StrictStatuses)
    /\ ~LiveHoldBlocks(t, r, s, e)

CreateWithCustomer ==
    \E i \in AdjacentIntervals, k \in Tokens \cup {NoToken},
       inline \in BOOLEAN :
        create_booking("t1", "r1", i[1], i[2], k, inline)

NextInline ==
    \/ CreateWithCustomer
    \/ ConfirmMiddle
    \/ CancelOwn

SpecInline == Init /\ [][NextInline]_vars

\* C26: a create_booking that returns the booking already stored under its
\* (tenant, client_generated_id) writes nothing: no booking, customer,
\* outbox or hold row is created or changed.
IdempotentReturnWritesNothing ==
    [][ ( /\ Called("create_booking")
          /\ lastOp'.result = "existing" )
        => UNCHANGED <<bookings, customers, events, holds>>
      ]_vars

(***************************************************************************)
(* SpecRejections: one tenant books one interval again and again and calls *)
(* confirm, with and without the payment requirement, cancel and           *)
(* mark_no_show on every booking in every status it reaches.               *)
(***************************************************************************)
ConfirmOwn ==
    \E t \in Creators, id \in BookingIds, rp \in BOOLEAN :
        confirm_booking(t, id, rp)

NextRejections ==
    \/ BookOnce
    \/ ConfirmOwn
    \/ CancelOwn
    \/ MarkOwnNoShow

SpecRejections == Init /\ [][NextRejections]_vars

\* The status operation op must reject booking b under arguments q.
MustReject(op, q, b) ==
    \/ op = "confirm_booking" /\ (b.status # "pending" \/ q.require_payment)
    \/ op = "cancel_booking" /\ b.status \in {"canceled", "completed"}
    \/ op = "mark_no_show" /\ b.status \notin {"confirmed", "checked_in"}

\* C28: confirm_booking on a booking that is not pending or with
\* require_payment, cancel_booking on a canceled or completed booking and
\* mark_no_show on a booking that is neither confirmed nor checked_in raise
\* and leave every booking row (status, no_show_flag, start_at, end_at) and
\* the outbox as they were.
RejectedStatusOpChangesNothing ==
    [][ \A b \in bookings :
          ( /\ lastOp' # lastOp
            /\ lastOp'.id = b.id
            /\ lastOp'.req.tenant = b.tenant
            /\ MustReject(lastOp'.op, lastOp'.req, b) )
          => /\ lastOp'.result = "value_error"
             /\ UNCHANGED <<bookings, events>>
      ]_vars

\* C28 witness: a confirm_booking with require_payment has just raised on a
\* booking that is still pending.
ConfirmRejectedForPayment ==
    /\ lastOp.op = "confirm_booking"
    /\ lastOp.req.require_payment
    /\ lastOp.result = "value_error"
    /\ \E b \in bookings : /\ b.id = lastOp.id
                           /\ b.tenant = lastOp.req.tenant
                           /\ b.status = "pending"

(***************************************************************************)
(* PaymentService.process_refund (services/financial.py).  The Stripe call *)
(* is an external service: it raises, or returns a refund whose status is  *)
(* succeeded or something else; the commit goes through or fails.          *)
(***************************************************************************)
MaxRefunds == 2

bookingVars == <<bookings, holds, holdCache, availCache, events, customers,
                 schedules, now, nextHold, procVars>>

PaymentIds == {1, 2, 3}
RefundAmounts == {1, 2, 3}
RefundTypes == {"full", "partial"}
StripeOutcomes == {"succeeded", "pending", "stripe_error", "db_error"}

FinOp(op, t, id, result, row) ==
    Op(op, Req(t, "none", 0, 0, id), result, row, NoSlots)

process_refund(t, payment_id, amount_cents, refund_type, outcome) ==
    /\ UNCHANGED <<bookingVars, methods, finProc>>
    /\ LET found == {x \in payments : x.id = payment_id /\ x.tenant = t}
           Raise(code) ==
               /\ lastOp' = FinOp("process_refund", t, payment_id, code, NoId)
               /\ UNCHANGED <<payments, refunds>>
       IN IF found = {} THEN Raise("TITHI_PAYMENT_NOT_FOUND")
          ELSE \E payment \in found :
            IF ~payment.provider_payment_id
            THEN Raise("TITHI_PAYMENT_NO_STRIPE_INTENT")
            ELSE IF amount_cents > payment.amount_cents
            THEN Raise("TITHI_REFUND_AMOUNT_EXCEEDED")
            ELSE IF outcome = "stripe_error"
            THEN Raise("TITHI_PAYMENT_STRIPE_ERROR")
            ELSE IF outcome = "db_error"
            THEN Raise("TITHI_REFUND_PROCESSING_ERROR")
            ELSE /\ Cardinality(refunds) < MaxRefunds
                 /\ LET id == Cardinality(refunds) + 1 IN
                    /\ refunds' = refunds \cup
                         {[id |-> id, tenant |-> t, payment_id |-> payment_id,
                           amount_cents |-> amount_cents,
                           refund_type |-> refund_type,
                           status |-> IF outcome = "succeeded"
                                      THEN "succeeded" ELSE "failed"]}
                    /\ payments' =
                         IF /\ refund_type = "full"
                            /\ amount_cents = payment.amount_cents
                         THEN Replace(payments, payment,
                                      [payment EXCEPT !.status = "refunded"])
                         ELSE payments
                    /\ lastOp' = FinOp("process_refund", t, payment_id,
                                       "refunded", id)

(***************************************************************************)
(* SpecRefunds: refunds of every amount and type are requested for the     *)
(* payments of one tenant by either tenant.                                *)
(***************************************************************************)
ProcessRefund ==
    \E t \in Tenants, payment_id \in PaymentIds, a \in RefundAmounts,
       ty \in RefundTypes, outcome \in StripeOutcomes :
        process_refund(t, payment_id, a, ty, outcome)

NextRefunds == ProcessRefund

SpecRefunds == Init /\ [][NextRefunds]_vars

RECURSIVE SumAmounts(_)
SumAmounts(rows) ==
    IF rows = {} THEN 0
    ELSE LET r == CHOOSE x \in rows : TRUE
         IN r.amount_cents + SumAmounts(rows \ {r})

RefundsOf(p) ==
    {r \in refunds : r.payment_id = p.id /\ r.tenant = p.tenant}

\* C29: for every payment, the amounts of its refund rows add up to no more
\* than the amount of the payment.
RefundsWithinPayment ==
    \A p \in payments : SumAmounts(RefundsOf(p)) <= p.amount_cents

(***************************************************************************)
(* PaymentService.set_default_payment_method, statement by statement, for  *)
(* requests that run at the same time.  A request reads the named method,  *)
(* runs the UPDATE that clears the customer's defaults, and commits that   *)
(* together with the flush of is_default = True on the named method.  The  *)
(* UPDATE matches rows as committed when it starts, waits for the row      *)
(* locks of another open transaction, and then skips the rows that are no  *)
(* longer default.                                                         *)
(***************************************************************************)
MethodIds == {1, 2, 3, 4}

SetFin(p, rec) == finProc' = [finProc EXCEPT ![p] = rec]

SdSelect(p, t, payment_method_id) ==
    /\ finProc[p].pc = "idle"
    /\ IF \E m \in methods : m.id = payment_method_id /\ m.tenant = t
       THEN /\ SetFin(p, [IdleFin EXCEPT !.pc = "selected", !.tenant = t,
                                        !.method = payment_method_id])
            /\ UNCHANGED lastOp
       ELSE /\ lastOp' = FinOp("set_default_payment_method", t,
                               payment_method_id,
                               "TITHI_PAYMENT_METHOD_NOT_FOUND", NoId)
            /\ UNCHANGED finProc
    /\ UNCHANGED <<bookingVars, payments, refunds, methods>>

CustomerOf(id) == (CHOOSE m \in methods : m.id = id).customer

SdMatch(p) ==
    /\ finProc[p].pc = "selected"
    /\ SetFin(p, [finProc[p] EXCEPT
                    !.pc = "matched",
                    !.matched =
                        {m.id : m \in
                           {x \in methods :
                              /\ x.tenant = finProc[p].tenant
                              /\ x.customer = CustomerOf(finProc[p].method)
                              /\ x.is_default}}])
    /\ UNCHANGED <<bookingVars, payments, refunds, methods, lastOp>>

LockedByOthers(p) ==
    UNION {finProc[q].unset : q \in {x \in Procs : x # p
                                       /\ finProc[x].pc = "updated"}}

SdUpdate(p) ==
    /\ finProc[p].pc = "matched"
    /\ finProc[p].matched \cap LockedByOthers(p) = {}
    /\ SetFin(p, [finProc[p] EXCEPT
                    !.pc = "updated",
                    !.unset = {id \in finProc[p].matched :
                                 \E m \in methods : m.id = id
                                                    /\ m.is_default}])
    /\ UNCHANGED <<bookingVars, payments, refunds, methods, lastOp>>

SdCommit(p) ==
    /\ finProc[p].pc = "updated"
    /\ methods' =
         {[m EXCEPT !.is_default =
               IF m.id = finProc[p].method THEN TRUE
               ELSE IF m.id \in finProc[p].unset THEN FALSE
               ELSE @] : m \in methods}
    /\ lastOp' = FinOp("set_default_payment_method", finProc[p].tenant,
                       finProc[p].method, "ok", finProc[p].method)
    /\ SetFin(p, IdleFin)
    /\ UNCHANGED <<bookingVars, payments, refunds>>

(***************************************************************************)
(* SpecDefaults: two requests set the default payment method, each for any *)
(* tenant and any method.                                                  *)
(***************************************************************************)
NextDefaults ==
    \E p \in Procs :
        \/ \E t \in Tenants, id \in MethodIds : SdSelect(p, t, id)
        \/ SdMatch(p)
        \/ SdUpdate(p)
        \/ SdCommit(p)

SpecDefaults == Init /\ [][NextDefaults]_vars

DefaultsOf(ms, t, c) ==
    {m \in ms : m.tenant = t /\ m.customer = c /\ m.is_default}

\* C30: after every step, whatever the interleaving, each customer of each
\* tenant has at most one payment method with is_default = true, and when
\* a set_default_payment_method call completes the method it named is the
\* default.
SingleDefaultMethod ==
    [][ /\ \A m \in methods' :
             Cardinality(DefaultsOf(methods', m.tenant, m.customer)) <= 1
        /\ ( /\ Called("set_default_payment_method")
             /\ lastOp'.result = "ok" )
           => \E m \in methods' : m.id = lastOp'.id /\ m.is_default
      ]_vars

====
